---- MODULE Spec2Model ----
(***************************************************************************)
(* Model of src/recomendation.py: the content-based movie recommender.     *)
(*                                                                         *)
(* Three specifications share this module:                                 *)
(*   Spec      the pipeline after vectorization: the similarity matrix is  *)
(*             built once, then recommend_movie is called any number of    *)
(*             times;                                                      *)
(*   SpecCast  the pure function get_top_actors applied to a cast cell;    *)
(*   SpecCrew  the pure function get_director applied to a crew cell.      *)
(*                                                                         *)
(* Python positions are 0-based and are kept 0-based here; a TLA+ sequence *)
(* s holds Python's s[i] at s[i + 1].                                      *)
(***************************************************************************)
EXTENDS Integers, Sequences, FiniteSets, TLC

VARIABLES
    movies,             \* the DataFrame: a sequence of rows [label, title]
    tfidf_matrix,       \* one term-weight vector per row
    similarity_matrix,  \* the item x item matrix, <<>> before it is built
    pc,                 \* "vectorized", then "ready"
    built,              \* what the build phase produced (history variable)
    earlier,            \* some call has returned before (history variable)
    call,               \* the call that just returned, with its locals
    result,             \* what that call returned
    cast_cell,          \* the argument of get_top_actors
    cast_out,           \* its outcome
    crew_cell,          \* the argument of get_director
    crew_out            \* its outcome

vars == <<movies, tfidf_matrix, similarity_matrix, pc, built, earlier, call, result,
          cast_cell, cast_out, crew_cell, crew_out>>

pipelineVars ==
    <<movies, tfidf_matrix, similarity_matrix, pc, built, earlier, call, result>>
castVars == <<cast_cell, cast_out>>
crewVars == <<crew_cell, crew_out>>

(***************************************************************************)
(* Bounds of the model.                                                    *)
(***************************************************************************)
MaxItems == 3       \* rows in the catalog
MaxTopN == 2        \* top_n ranges over -MaxTopN .. MaxTopN
MaxCast == 4        \* records in a cast list
MaxCrew == 3        \* records in a crew list

(***************************************************************************)
(* Program constants.                                                      *)
(***************************************************************************)
TOP_ACTORS == 3
NOT_FOUND_MSG == "Movie not found in database"
DIRECTOR == "Director"

(***************************************************************************)
(* Python helpers.                                                         *)
(***************************************************************************)
Min(a, b) == IF a < b THEN a ELSE b
Max(a, b) == IF a > b THEN a ELSE b

\* s[start:stop] of a Python list: a negative bound counts from the end, and
\* both bounds are clamped to 0 .. len(s).
PySlice(s, start, stop) ==
    LET n == Len(s)
        lo == Min(n, Max(0, IF start < 0 THEN start + n ELSE start))
        hi == Min(n, Max(0, IF stop < 0 THEN stop + n ELSE stop))
    IN  IF lo < hi THEN SubSeq(s, lo + 1, hi) ELSE <<>>

\* " ".join(names)
RECURSIVE Join(_)
Join(names) ==
    IF names = <<>> THEN ""
    ELSE IF Len(names) = 1 THEN names[1]
    ELSE names[1] \o " " \o Join(Tail(names))

(***************************************************************************)
(* Cast and crew cells.  A cell is the text of one CSV field.  What        *)
(* ast.literal_eval makes of it is one of three shapes:                    *)
(*   "malformed"  the text is no Python literal (the "" that fillna puts   *)
(*                in place of a missing field included): it raises;        *)
(*   "scalar"     a literal that is not a sequence (a number): slicing or  *)
(*                iterating it raises;                                     *)
(*   "list"       a list of records.                                       *)
(* A record is a dict, modelled as a function whose domain is the set of   *)
(* keys it has; reading a key it lacks raises KeyError.                    *)
(***************************************************************************)
Names == {"Sam", "Kate"}
Jobs == {DIRECTOR, "director", "Producer"}

NoKeys == [k \in {} |-> ""]
CastRecords == {NoKeys} \cup {[name |-> n] : n \in Names}
CrewRecords ==
    {NoKeys}
    \cup {[name |-> n] : n \in Names}
    \cup {[job |-> j] : j \in Jobs}
    \cup {[job |-> j, name |-> n] : j \in Jobs, n \in Names}

SeqsUpTo(S, n) == UNION {[1..k -> S] : k \in 0..n}

Cell(kind, items) == [kind |-> kind, items |-> items]
Cells(Records, n) ==
    {Cell("malformed", <<>>), Cell("scalar", <<>>)}
    \cup {Cell("list", items) : items \in SeqsUpTo(Records, n)}

HasKey(person, key) == key \in DOMAIN person

\* An outcome of a call: it returned a value, or an exception left it.
Returned(v) == [raised |-> FALSE, value |-> v]
NotCalled == [raised |-> FALSE, value |-> "<not called>"]

\* The for loop of get_top_actors over cast[:3].  `names` is bound before the
\* try, so what was appended before person["name"] raised stays in it.
RECURSIVE CollectNames(_, _)
CollectNames(people, names) ==
    IF people = <<>> THEN [raised |-> FALSE, names |-> names]
    ELSE IF HasKey(Head(people), "name")
         THEN CollectNames(Tail(people), Append(names, Head(people)["name"]))
         ELSE [raised |-> TRUE, names |-> names]

\* The try block of get_top_actors: literal_eval, the slice, the loop.
TopActorsTry(cast) ==
    IF cast.kind = "list"
    THEN CollectNames(PySlice(cast.items, 0, TOP_ACTORS), <<>>)
    ELSE [raised |-> TRUE, names |-> <<>>]

\* `except: pass` swallows whatever the try block raised; the join follows.
get_top_actors(cast) == Returned(Join(TopActorsTry(cast).names))

\* Mutant of ScanCrew: a record without a "job" key is skipped, as
\* person.get("job") would, instead of ending the scan.
RECURSIVE ScanCrewSkipping(_)
ScanCrewSkipping(people) ==
    IF people = <<>> THEN [kind |-> "end", value |-> ""]
    ELSE IF HasKey(Head(people), "job") /\ Head(people)["job"] = DIRECTOR
         THEN IF HasKey(Head(people), "name")
              THEN [kind |-> "return", value |-> Head(people)["name"]]
              ELSE [kind |-> "raise", value |-> ""]
         ELSE ScanCrewSkipping(Tail(people))

\* The for loop of get_director: [kind |-> "return"] when a return statement
\* ran, "raise" when person["job"] or person["name"] raised, "end" when the
\* loop ran out of records.
RECURSIVE ScanCrew(_)
ScanCrew(people) ==
    IF people = <<>> THEN [kind |-> "end", value |-> ""]
    ELSE IF ~HasKey(Head(people), "job") THEN [kind |-> "raise", value |-> ""]
    ELSE IF Head(people)["job"] = DIRECTOR
         THEN IF HasKey(Head(people), "name")
              THEN [kind |-> "return", value |-> Head(people)["name"]]
              ELSE [kind |-> "raise", value |-> ""]
         ELSE ScanCrew(Tail(people))

\* The try block of get_director.
DirectorTry(crew) ==
    IF crew.kind = "list" THEN ScanCrew(crew.items)
    ELSE [kind |-> "raise", value |-> ""]

\* `except: pass`, then the final `return ""`.
get_director(crew) ==
    IF DirectorTry(crew).kind = "return"
    THEN Returned(DirectorTry(crew).value)
    ELSE Returned("")

(***************************************************************************)
(* The catalog and its vectors.                                            *)
(*                                                                         *)
(* A row of tfidf_matrix is the TF-IDF vector of one combined_text.  Only  *)
(* its direction matters to the cosine, so a vector is given by small      *)
(* non-negative integer weights; the all-zero vector is the vector of a    *)
(* text with no vocabulary term (empty, or stop words only).               *)
(***************************************************************************)
Titles == {"Avatar", "Alien", NOT_FOUND_MSG}
Queries == Titles \cup {"Nonexistent Movie"}
Vectors == {<<0, 0>>, <<1, 0>>, <<1, 1>>}
TopNs == (0 - MaxTopN) .. MaxTopN

Dot(u, v) == u[1] * v[1] + u[2] * v[2]
IsZero(u) == Dot(u, u) = 0

RECURSIVE GCD(_, _)
GCD(a, b) == IF b = 0 THEN a ELSE GCD(b, a % b)

\* A matrix entry is a cosine c in [0, 1].  It is held exactly, as the
\* fraction <<p, q>> in lowest terms that equals c * c; squaring is strictly
\* increasing on [0, 1], so entries compare as their fractions do, c = 1.0
\* is <<1, 1>> and c = 0.0 is <<0, 1>>.
Frac(p, q) == <<p \div GCD(p, q), q \div GCD(p, q)>>
ONE == Frac(1, 1)
ZERO == Frac(0, 1)
Less(a, b) == a[1] * b[2] < b[1] * a[2]

\* Mutant of Cosine: the product of the rows as they are, not divided by
\* their norms (linear_kernel on vectors that are not normalised).
LinearKernel(u, v) == Frac(Dot(u, v) * Dot(u, v), 1)

\* sklearn's cosine_similarity: each row is divided by its norm, a zero norm
\* being replaced by 1 (the row stays zero), then the rows are multiplied.
Cosine(u, v) ==
    IF IsZero(u) \/ IsZero(v) THEN ZERO
    ELSE Frac(Dot(u, v) * Dot(u, v), Dot(u, u) * Dot(v, v))

cosine_similarity(X) ==
    [i \in 1..Len(X) |-> [j \in 1..Len(X) |-> Cosine(X[i], X[j])]]

(***************************************************************************)
(* recommend_movie.                                                        *)
(***************************************************************************)
TitleValues(m) == {m[i].title : i \in DOMAIN m}

\* Mutant of FirstMatch: .index[-1], the last row that has the title.
LastMatch(m, movie_name) ==
    LET hits == SelectSeq(m, LAMBDA row : row.title = movie_name)
    IN  hits[Len(hits)].label

\* movies[movies["title"] == movie_name].index[0]: the label of the first
\* row, in catalog order, whose title equals movie_name.
FirstMatch(m, movie_name) ==
    SelectSeq(m, LAMBDA row : row.title = movie_name)[1].label

\* list(enumerate(similarity_matrix[index])): pairs <<position, score>>.
Enumerate(row) == [k \in 1..Len(row) |-> <<k - 1, row[k]>>]

\* p goes behind every pair whose score is at least its own.
InsertDesc(sorted, p) ==
    LET k == Cardinality({i \in DOMAIN sorted : ~Less(sorted[i][2], p[2])})
    IN  SubSeq(sorted, 1, k) \o <<p>> \o SubSeq(sorted, k + 1, Len(sorted))

\* sorted(pairs, key=lambda x: x[1], reverse=True): descending by score and
\* stable, so pairs of equal score keep the order they had.
RECURSIVE SortedDesc(_)
SortedDesc(pairs) ==
    IF pairs = <<>> THEN <<>>
    ELSE InsertDesc(SortedDesc(SubSeq(pairs, 1, Len(pairs) - 1)),
                    pairs[Len(pairs)])

\* Mutant of RecommendedRows: the slice [1:top_n], one entry short.
RecommendedRowsOneShort(sim, index, top_n) ==
    LET picked == PySlice(SortedDesc(Enumerate(sim[index + 1])), 1, top_n)
    IN  [k \in 1..Len(picked) |-> picked[k][1]]

\* The positions i[0] the loop visits: similarity_scores[1:top_n + 1].
RecommendedRows(sim, index, top_n) ==
    LET picked == PySlice(SortedDesc(Enumerate(sim[index + 1])), 1, top_n + 1)
    IN  [k \in 1..Len(picked) |-> picked[k][1]]

\* movies.iloc[i]: the row at position i.
iloc(m, i) == m[i + 1]

\* The locals of a call that found its title.
Locals(m, sim, movie_name, top_n) ==
    [index |-> FirstMatch(m, movie_name),
     rows |-> RecommendedRows(sim, FirstMatch(m, movie_name), top_n)]

recommend_movie(m, sim, movie_name, top_n) ==
    IF movie_name \notin TitleValues(m) THEN <<NOT_FOUND_MSG>>
    ELSE LET rows == Locals(m, sim, movie_name, top_n).rows
         IN  [k \in 1..Len(rows) |-> iloc(m, rows[k]).title]

(***************************************************************************)
(* The pipeline.                                                           *)
(***************************************************************************)
NoCall == [movie_name |-> "", top_n |-> 0, found |-> FALSE, index |-> -1,
           rows |-> <<>>]
NotBuilt == [movies |-> <<>>, similarity_matrix |-> <<>>]

PipelineIdle ==
    /\ movies = <<>>
    /\ tfidf_matrix = <<>>
    /\ similarity_matrix = <<>>
    /\ pc = "idle"
    /\ built = NotBuilt
    /\ earlier = FALSE
    /\ call = NoCall
    /\ result = <<>>

CastIdle == cast_cell = Cell("malformed", <<>>) /\ cast_out = NotCalled
CrewIdle == crew_cell = Cell("malformed", <<>>) /\ crew_out = NotCalled

\* The state after line 117: the merged table has a fresh 0..n-1 index, and
\* fit_transform returned, which it does only for a non-empty vocabulary,
\* that is when some row has a term.
InitPipeline ==
    /\ \E n \in 1..MaxItems :
         \E ts \in [1..n -> Titles], X \in [1..n -> Vectors] :
            /\ \E i \in 1..n : ~IsZero(X[i])
            /\ movies = [i \in 1..n |-> [label |-> i - 1, title |-> ts[i]]]
            /\ tfidf_matrix = X
    /\ similarity_matrix = <<>>
    /\ pc = "vectorized"
    /\ built = NotBuilt
    /\ earlier = FALSE
    /\ call = NoCall
    /\ result = <<>>

Init == InitPipeline /\ CastIdle /\ CrewIdle

\* Line 126.
BuildSimilarity ==
    /\ pc = "vectorized"
    /\ similarity_matrix' = cosine_similarity(tfidf_matrix)
    /\ built' = [movies |-> movies, similarity_matrix |-> similarity_matrix']
    /\ pc' = "ready"
    /\ UNCHANGED <<movies, tfidf_matrix, earlier, call, result, castVars, crewVars>>

\* Mutant of RecommendMovie: the call ranks the row by sorting it in place,
\* which leaves the matrix row reordered.
RecommendMovieSortingInPlace(movie_name, top_n) ==
    /\ pc = "ready"
    /\ result' = recommend_movie(movies, similarity_matrix, movie_name, top_n)
    /\ call' = IF movie_name \in TitleValues(movies)
               THEN [movie_name |-> movie_name, top_n |-> top_n, found |-> TRUE]
                    @@ Locals(movies, similarity_matrix, movie_name, top_n)
               ELSE [NoCall EXCEPT !.movie_name = movie_name, !.top_n = top_n]
    /\ similarity_matrix' =
          IF movie_name \in TitleValues(movies)
          THEN LET at == FirstMatch(movies, movie_name) + 1
                   ranked == SortedDesc(Enumerate(similarity_matrix[at]))
               IN  [similarity_matrix EXCEPT
                       ![at] = [k \in 1..Len(ranked) |-> ranked[k][2]]]
          ELSE similarity_matrix
    /\ pc' = "returned"
    /\ UNCHANGED <<movies, tfidf_matrix, built, earlier, castVars, crewVars>>

\* One call of recommend_movie, lines 133-148.
RecommendMovie(movie_name, top_n) ==
    /\ pc = "ready"
    /\ result' = recommend_movie(movies, similarity_matrix, movie_name, top_n)
    /\ call' = IF movie_name \in TitleValues(movies)
               THEN [movie_name |-> movie_name, top_n |-> top_n, found |-> TRUE]
                    @@ Locals(movies, similarity_matrix, movie_name, top_n)
               ELSE [NoCall EXCEPT !.movie_name = movie_name, !.top_n = top_n]
    /\ pc' = "returned"
    /\ UNCHANGED <<movies, tfidf_matrix, similarity_matrix, built, earlier,
                   castVars, crewVars>>

Recommend == \E movie_name \in Queries, top_n \in TopNs : RecommendMovie(movie_name, top_n)

\* The caller is done with the returned list (line 158 prints it) and the
\* locals of the call are gone; the next call may follow.
Discard ==
    /\ pc = "returned"
    /\ pc' = "ready"
    /\ call' = NoCall
    /\ result' = <<>>
    /\ earlier' = TRUE
    /\ UNCHANGED <<movies, tfidf_matrix, similarity_matrix, built,
                   castVars, crewVars>>

Next == BuildSimilarity \/ Recommend \/ Discard

Spec == Init /\ [][Next]_vars

(***************************************************************************)
(* get_top_actors and get_director, each applied to one cell.              *)
(***************************************************************************)
InitCast ==
    /\ cast_cell \in Cells(CastRecords, MaxCast)
    /\ cast_out = NotCalled
    /\ PipelineIdle
    /\ CrewIdle

ApplyGetTopActors ==
    /\ cast_out = NotCalled
    /\ cast_out' = get_top_actors(cast_cell)
    /\ UNCHANGED <<cast_cell, pipelineVars, crewVars>>

SpecCast == InitCast /\ [][ApplyGetTopActors]_vars

InitCrew ==
    /\ crew_cell \in Cells(CrewRecords, MaxCrew)
    /\ crew_out = NotCalled
    /\ PipelineIdle
    /\ CastIdle

ApplyGetDirector ==
    /\ crew_out = NotCalled
    /\ crew_out' = get_director(crew_cell)
    /\ UNCHANGED <<crew_cell, pipelineVars, castVars>>

SpecCrew == InitCrew /\ [][ApplyGetDirector]_vars

(***************************************************************************)
(* Properties.                                                             *)
(***************************************************************************)
Found == pc = "returned" /\ call.found
Score(p) == similarity_matrix[call.index + 1][p + 1]
Returns == {call.rows[k] : k \in DOMAIN call.rows}

\* Position a ranks strictly before position b in the order of the claim:
\* higher similarity to the query first, the lower position first on a tie.
RanksBefore(a, b) ==
    \/ Less(Score(b), Score(a))
    \/ (Score(a) = Score(b) /\ a < b)

\* C1: the list returned for a title of the catalog never holds the row the
\* lookup used, whatever the ties and also for an all-zero query vector.
C1_QueryItemExcluded == Found => call.index \notin Returns

\* C2: the returned rows are in descending similarity to the query item,
\* equal similarities in ascending catalog position, and no row left out
\* other than the query row ranks before a returned row.
C2_RankedDescendingStable ==
    Found =>
        /\ \A k \in DOMAIN call.rows : \A l \in DOMAIN call.rows :
              k < l => RanksBefore(call.rows[k], call.rows[l])
        /\ \A out \in 0..(Len(movies) - 1) : \A in \in Returns :
              (out \notin Returns /\ out # call.index) => ~RanksBefore(out, in)

\* C3: for a title of a catalog of N rows and top_n > 0 the call returns
\* exactly min(top_n, N - 1) entries.
C3_ExactlyMinTopNEntries ==
    (Found /\ call.top_n > 0) => Len(result) = Min(call.top_n, Len(movies) - 1)

\* A call that wanted more entries than the catalog has besides the query.
C3_Witness ==
    /\ Found
    /\ call.top_n > Len(movies) - 1
    /\ Len(movies) > 1
    /\ Len(result) = Len(movies) - 1

\* C4: no call that found its title returns what a call that did not find
\* its title returns.
C4_NotFoundDistinguishable == Found => result # <<NOT_FOUND_MSG>>

\* C5: for a title of the catalog and top_n <= 0 the call returns the empty
\* list.
C5_NonPositiveTopNEmpty == (Found /\ call.top_n <= 0) => result = <<>>

\* C6: the call ranks against the matrix row of the first catalog row that
\* has the title, reads the titles it returns at the positions it ranked,
\* and row i of the matrix belongs to row i of the catalog.
C6_FirstMatchRowAligned ==
    Found =>
        /\ call.index + 1 \in DOMAIN movies
        /\ movies[call.index + 1].title = call.movie_name
        /\ \A q \in 1..call.index : movies[q].title # call.movie_name
        /\ call.rows = RecommendedRows(similarity_matrix, call.index, call.top_n)
        /\ Len(result) = Len(call.rows)
        /\ \A k \in DOMAIN call.rows : result[k] = movies[call.rows[k] + 1].title
        /\ \A i \in DOMAIN movies :
              /\ movies[i].label = i - 1
              /\ \A j \in DOMAIN movies :
                    similarity_matrix[i][j] = Cosine(tfidf_matrix[i], tfidf_matrix[j])

\* The title asked for is on two rows whose matrix rows differ, and the call
\* returned something.
C6_Witness ==
    /\ Found
    /\ result # <<>>
    /\ \E q \in DOMAIN movies :
          /\ q > call.index + 1
          /\ movies[q].title = call.movie_name
          /\ similarity_matrix[q] # similarity_matrix[call.index + 1]

CastCalled == cast_out # NotCalled
CastNames(items) == [k \in DOMAIN items |-> items[k]["name"]]

\* C7: get_top_actors never raises; for a list of records that all have a
\* name it returns the first three names (all of them when fewer) joined by
\* single spaces; for a cell that fails to parse (no literal, no list, or a
\* record without a name among the first three) it returns "".
C7_TopActorsOrEmpty ==
    CastCalled =>
        /\ ~cast_out.raised
        /\ (/\ cast_cell.kind = "list"
            /\ \A k \in DOMAIN cast_cell.items : HasKey(cast_cell.items[k], "name"))
           => cast_out.value =
                 Join(CastNames(SubSeq(cast_cell.items, 1,
                                       Min(TOP_ACTORS, Len(cast_cell.items)))))
        /\ (\/ cast_cell.kind # "list"
            \/ \E k \in DOMAIN cast_cell.items :
                  k <= TOP_ACTORS /\ ~HasKey(cast_cell.items[k], "name"))
           => cast_out.value = ""

CrewCalled == crew_out # NotCalled
IsDirector(person) == HasKey(person, "job") /\ person["job"] = DIRECTOR
Directors == {k \in DOMAIN crew_cell.items : IsDirector(crew_cell.items[k])}
FirstOf(S) == CHOOSE k \in S : \A l \in S : k <= l

Stops == {k \in DOMAIN crew_cell.items : ~HasKey(crew_cell.items[k], "job")} \cup Directors

Built == pc \in {"ready", "returned"}

C10_CallsLeaveCatalogAndMatrix ==
    Built =>
        /\ movies = built.movies
        /\ similarity_matrix = built.similarity_matrix
        /\ pc = "returned" =>
              result = recommend_movie(built.movies, built.similarity_matrix,
                                       call.movie_name, call.top_n)

\* A call that found its title and returned rows, after an earlier call.
C10_Witness == Found /\ earlier /\ result # <<>>

====
